---------------------------- MODULE Spec2Model ----------------------------
(***************************************************************************)
(* The request pipeline of the SpacePyTraders client library:              *)
(*   make_request      (rate limited by ratelimit's @sleep_and_retry and   *)
(*                      @limits(calls=2, period=1.2))                      *)
(*   Client.generic_api_call  (classification of the answer, retry loop)   *)
(*   the endpoint methods that call it (Fleet.get_ship, Fleet.list_ships)  *)
(* for the two client modules, SpacePyTraders ("V1") and SpacePyTradersV2  *)
(* ("V2").                                                                 *)
(*                                                                         *)
(* Time is counted in ticks of 0.4 s: the limiter period of 1.2 s is 3     *)
(* ticks, the default throttle_time of 10 s is 25 ticks.  The limiter      *)
(* keeps last_reset as a clock value; the model keeps clock() - last_reset *)
(* (elapsed), saturated at period, which is all the limiter reads.         *)
(***************************************************************************)
EXTENDS Integers, Sequences, FiniteSets

VARIABLES
    variant,        \* which client module the process uses: "V1" or "V2"
    elapsed,        \* limiter: clock() - last_reset, saturated at period
    num_calls,      \* limiter: calls counted in the current limiter window
    sent,           \* single caller: ages (ticks) of the network calls of the last period
    sincePause,     \* ticks since the caller last paused (idle or retry sleep)
    waited,         \* ticks sleep_and_retry slept for the current make_request
    pc,             \* "idle", "acquire", "send", "returned"
    kind,           \* the caller: "direct", "passthrough", "single", "aggregate"
    method,         \* argument method
    raw_res,        \* argument raw_res
    throttle_time,  \* argument throttle_time (ticks)
    i,              \* the loop variable of `for i in range(10)`
    reqs,           \* executions of the body of make_request in this call
    net,            \* network calls (requests.get/post/...) in this call
    wire,           \* how the last network call carried the parameters
    lastResp,       \* the transport's answer in the last attempt
    decodes,        \* r.json() calls in the last attempt
    raised,         \* the exception raised inside the try of the last attempt
    naps,           \* durations of the time.sleep(throttle_time) of this call
    log,            \* log records of the last attempt
    result,         \* how generic_api_call ended
    ret,            \* how the endpoint method ended
    tokens,         \* the token attribute of the Api object and of each facade
    facade,         \* the object whose method was called
    op,             \* the method called
    headers,        \* the headers argument handed to make_request
    posted,         \* the headers of the last network call, and who made it
    tpc,            \* threads: where each thread is in make_request
    napLeft,        \* threads: ticks left of each thread's sleep
    slept,          \* threads: whether the thread's current call has slept
    admitted,       \* threads: calls let through since the limiter's last reset
    dispatched,     \* threads: network calls made since the limiter's last reset
    ppc,            \* models.py: "idle", "loaded", "parsed", "unpacked", "converted", "siphoned"
    target,         \* models.py: the model argument of parser
    input,          \* models.py: the data argument of parser
    instance,       \* models.py: what parser returned (or raised)
    output,         \* models.py: what unpack returned (or raised)
    names,          \* models.py: a field name and its case transforms
    registry        \* models.py: the dicts class_dict and list_dict

\* what the caller of an endpoint method holds and what went on the wire
authVars == <<tokens, facade, op, headers, posted>>

\* the threads that call make_request at the same time
threadVars == <<tpc, napLeft, slept, admitted, dispatched>>

\* the marshalling of models.py
modelVars == <<ppc, target, input, instance, output, names, registry>>

vars == <<variant, elapsed, num_calls, sent, sincePause, waited, pc, kind,
          method, raw_res, throttle_time, i, reqs, net, wire, lastResp,
          decodes, raised, naps, log, result, ret, authVars, threadVars,
          modelVars>>

---------------------------------------------------------------------------
(* Constants of the program and bounds of the model *)

\* @limits(calls=2, ...)
calls == 2

\* @limits(..., period=1.2): 1.2 s = 3 ticks of 0.4 s
period == 3

\* for i in range(10)
MaxTries == 10

\* throttle_time=10: 10 s = 25 ticks of 0.4 s
DefaultThrottle == 25

\* longest network latency of one request, in ticks
MaxLatency == 1

\* number of threads that call make_request at the same time
NThreads == 2

Threads == 1..NThreads

Variants == {"V1", "V2"}

\* "HEAD" stands for any verb make_request has no branch for
Methods == {"GET", "POST", "PUT", "DELETE", "PATCH", "HEAD"}

\* the values of throttle_time the callers pass: no sleep, or the default
ThrottleTimes == {0, DefaultThrottle}

Min(a, b) == IF a < b THEN a ELSE b

---------------------------------------------------------------------------
(* The transport's answers *)

\* 400 stands for any status from 400 on (Response.ok is False)
Statuses == {200, 204, 400}

\* 4000 stands for any code other than 42901, 500 and 409
Codes == {42901, 500, 409, 4000}

Resp(k, s, c, hc, hm) ==
    [kind |-> k, status |-> s, code |-> c, hasCode |-> hc, hasMessage |-> hm]

\* no answer at all (no network call was made)
NoResp == Resp("none", 0, 0, FALSE, FALSE)

\* kind "raise": requests raised (connection error, timeout, ...)
\* kind "undecodable": the body is not JSON (an empty body included)
\* kind "data": a JSON object with a data key and no error key
\* kind "error": a JSON object with an error key, whose value may lack
\*               the code or the message
Responses ==
    {Resp("raise", 0, 0, FALSE, FALSE)}
    \cup {Resp(k, s, 0, FALSE, FALSE) : k \in {"undecodable", "data"}, s \in Statuses}
    \cup {Resp("error", s, c, TRUE, hm) : s \in Statuses, c \in Codes, hm \in BOOLEAN}
    \cup {Resp("error", s, 0, FALSE, hm) : s \in Statuses, hm \in BOOLEAN}

\* a log record: the logging call's level, the fixed part of its text, and
\* the verb or the remote error code the text names ("" and 0: none)
Rec(level, text, verb, code) ==
    [code |-> code, level |-> level, text |-> text, verb |-> verb]

Value(k, w) == [kind |-> k, what |-> w]

NoValue == Value("pending", "")

NoWire == [verb |-> "", carrier |-> ""]

---------------------------------------------------------------------------
(* Tokens and headers *)

\* token=None, the default of Client.__init__ and of generic_api_call
NoToken == "None"

\* "" is the token register_new_agent passes; "T1" is a token given at
\* construction, "T2" the token a registration answer holds
Tokens == {NoToken, "", "T1", "T2"}

\* the Authorization entry of a headers dict: present or not, and the text
\* after 'Bearer '
Bearer(tok) == [authorization |-> TRUE, token |-> tok]

\* headers={}
NoHeaders == [authorization |-> FALSE, token |-> ""]

NoPost == [headers |-> NoHeaders, by |-> ""]

\* the facades Api.__init__ creates
Facades(v) ==
    IF v = "V2" THEN {"agent", "contracts", "faction", "fleet", "systems"}
    ELSE {"agent", "contracts", "faction", "extract", "markets",
          "navigation", "fleet", "shipyard", "systems", "trade"}

\* the facades Api.register_new_agent (SpacePyTraders) hands the new token
Registered ==
    {"fleet", "systems", "agent", "markets", "trade", "navigation",
     "contracts", "extract", "shipyard"}

\* the objects that hold a token: the Api object, its facades, and a bare
\* Client
Holders(v) == {"api", "client"} \cup Facades(v)


---------------------------------------------------------------------------
(* make_request: the body of the function (the limiter is below) *)

\* what one execution does: whether a network call is made, how it carries
\* params (requests' params=, json= or data= argument), what it logs
Request(sends, carrier, lg) == [log |-> lg, carrier |-> carrier, sends |-> sends]

\* mutant: the list names a verb that has no branch
listed_methods_too_many(v) == Methods

\* the verbs the last `if method not in [...]` of make_request lists
listed_methods(v) ==
    IF v = "V2" THEN {"GET", "POST", "PUT", "DELETE", "PATCH"}
    ELSE {"GET", "POST", "PUT", "DELETE"}

\* mutant: PUT sends params as json= instead of data=
make_request_put_json(v, m) ==
    IF m = "GET" THEN Request(TRUE, "params", <<>>)
    ELSE IF m = "POST" THEN Request(TRUE, "json", <<>>)
    ELSE IF m = "PUT" THEN Request(TRUE, "json", <<>>)
    ELSE IF m = "DELETE" THEN Request(TRUE, "data", <<>>)
    ELSE IF v = "V2" /\ m = "PATCH" THEN Request(TRUE, "json", <<>>)
    ELSE Request(FALSE, "", <<Rec("ERROR", "Invalid method provided", m, 0)>>)

make_request(v, m) ==
    IF m = "GET" THEN Request(TRUE, "params", <<>>)
    ELSE IF m = "POST" THEN Request(TRUE, "json", <<>>)
    ELSE IF m = "PUT" THEN Request(TRUE, "data", <<>>)
    ELSE IF m = "DELETE" THEN Request(TRUE, "data", <<>>)
    ELSE IF v = "V2" /\ m = "PATCH" THEN Request(TRUE, "json", <<>>)
    ELSE IF m \notin listed_methods(v)
         THEN Request(FALSE, "", <<Rec("ERROR", "Invalid method provided", m, 0)>>)
         ELSE Request(FALSE, "", <<>>)

---------------------------------------------------------------------------
(* The limiter: @sleep_and_retry @limits(calls=2, period=1.2) *)

period_remaining == period - elapsed

\* `if period_remaining <= 0: num_calls = 0; last_reset = clock()`
window_expired == period_remaining <= 0

\* mutant: the increment is lost (two threads read num_calls without the
\* lock and write back the same value)
counted_lost_update == IF window_expired THEN 1 ELSE Min(num_calls + 1, calls)

\* `num_calls += 1`, after the reset if there was one
counted == (IF window_expired THEN 0 ELSE num_calls) + 1

\* mutant: one call too many is let through
rate_limited_late == counted > calls + 1

\* `if num_calls > clamped_calls: raise RateLimitException`
rate_limited == counted > calls

\* ages after d more ticks; calls older than a period are forgotten
Aged(s, d) ==
    LET Recent(a) == a < period
    IN SelectSeq([k \in DOMAIN s |-> s[k] + d], Recent)

---------------------------------------------------------------------------
(* generic_api_call: the body of the try statement, for one attempt *)

\* `if code == 42901`
is_throttle(code) == code = 42901

\* mutant: every remote error code is taken for a server error
is_server_any(code) == code >= 400

\* `if code == 500 or code == 409`
is_server(code) == code = 500 \/ code = 409

Tried(out, value, exc, lg, dec) ==
    [decodes |-> dec, log |-> lg, out |-> out, value |-> value, exc |-> exc]

\* v: the client module, r: the object make_request returned (NoResp: None),
\* raw: raw_res.  out is "return" (with value) or "raise" (with exc).
try_body(v, r, raw) ==
    IF r.kind = "raise"
    THEN Tried("raise", NoValue, "ConnectionError", <<>>, 0)
    ELSE IF v = "V2" /\ r.kind = "none"         \* None.status_code
    THEN Tried("raise", NoValue, "AttributeError", <<>>, 0)
    ELSE IF v = "V2" /\ r.status = 204
    THEN Tried("return", Value("None", ""), "", <<>>, 0)
    ELSE IF r.kind = "none"                     \* None.json()
    THEN Tried("raise", NoValue, "AttributeError", <<>>, 0)
    ELSE IF r.kind = "undecodable"              \* 'error' in r.json()
    THEN Tried("raise", NoValue, "JSONDecodeError", <<>>, 1)
    ELSE IF r.kind = "error"
    THEN IF ~r.hasCode \/ ~r.hasMessage     \* error['error']['code' / 'message']
         THEN Tried("raise", NoValue, "KeyError", <<>>, 2)
         ELSE LET w == <<Rec("WARNING", "An error has occurred when hitting", "", r.code)>>
              IN IF is_throttle(r.code)
                 THEN Tried("raise", NoValue, "ThrottleException", w, 2)
                 ELSE IF is_server(r.code)
                 THEN Tried("raise", NoValue, "ServerException", w, 2)
                 ELSE Tried("return", Value("False", ""), "",
                            w \o <<Rec("WARNING", "warning_log", "", 0),
                                   Rec("ERROR", "Something broke the script", "", r.code)>>,
                            2)
    ELSE IF raw
    THEN Tried("return", Value("raw", r.kind), "", <<>>, 1)
    ELSE Tried("return", Value("json", r.kind), "", <<>>, 2)

\* mutant: the general clause comes first and takes every exception
except_clause_general_first(exc) == "return"

\* mutant: the general clause sleeps and retries like the other two
except_clause_retry_all(exc) ==
    IF exc = "ThrottleException" THEN "throttle" ELSE "server"

\* which except clause takes the exception
except_clause(exc) ==
    IF exc = "ThrottleException" THEN "throttle"
    ELSE IF exc = "ServerException" THEN "server"
    ELSE "return"

\* what the except clause logs before it sleeps
except_log(clause) ==
    IF clause = "throttle"
    THEN <<Rec("INFO", "Throttle limit was reached. Pausing to wait for throttle", "", 0)>>
    ELSE IF clause = "server"
    THEN <<Rec("INFO", "Server Error. Pausing before trying again", "", 0)>>
    ELSE <<>>

\* mutant: the except clauses sleep the default, not the argument
sleep_time_default(clause, throttle) ==
    IF clause \in {"throttle", "server"} THEN DefaultThrottle ELSE 0

\* the argument of time.sleep in the except clause
sleep_time(clause, throttle) ==
    IF clause = "throttle" THEN throttle
    ELSE IF clause = "server" THEN throttle
    ELSE 0

\* mutant: the loop runs once more
range_exhausted_late(n) == n > MaxTries

\* `for i in range(10)` has no further value after n iterations
range_exhausted(n) == n >= MaxTries

---------------------------------------------------------------------------
(* The endpoint methods *)

\* bool(res): None and False are falsy; a decoded body with a data key, an
\* exception object and a Response with status < 400 are truthy
truthy(res) == res.kind \in {"json", "raw", "exception"}

\* res['data'] works on a decoded body only; on None, False, a Response or
\* an exception object it raises TypeError
subscriptable(res) == res.kind = "json"

\* V1 endpoint methods: `return res if res else False`
passthrough_return(res) == IF truthy(res) THEN res ELSE Value("False", "")

\* V2, one parsed sub-object (Fleet.get_ship):
\* `return models.parser(res['data'], models.Ship) if res else False`
single_return(res) ==
    IF truthy(res)
    THEN IF subscriptable(res) THEN Value("parsed", res.what)
         ELSE Value("raise", "TypeError")
    ELSE Value("False", "")

\* V2, a dict of parsed sub-objects (Fleet.list_ships):
\* `ret = {"ships": models.parser(res['data'], ...), ...}` and then
\* `return ret if res else False`
aggregate_return(res) ==
    IF ~subscriptable(res) THEN Value("raise", "TypeError")
    ELSE IF truthy(res) THEN Value("parsed", res.what)
    ELSE Value("False", "")

\* how the caller of generic_api_call ends, given how generic_api_call ended
endpoint_return(k, res) ==
    IF res.kind = "raise" THEN res
    ELSE IF k = "passthrough" THEN passthrough_return(res)
    ELSE IF k = "single" THEN single_return(res)
    ELSE IF k = "aggregate" THEN aggregate_return(res)
    ELSE res

\* the callers each client module has; "direct" is a call of
\* generic_api_call itself
Kinds(v) ==
    IF v = "V2" THEN {"direct", "single", "aggregate"}
    ELSE {"direct", "passthrough"}

\* the endpoint methods pass a verb literal; a direct caller passes any
MethodsOf(k) == IF k = "direct" THEN Methods ELSE {"GET", "POST"}

---------------------------------------------------------------------------
(* models.py: strings.  A string is the sequence of its characters, so     *)
(* that the case transforms are computed and not assumed.                  *)

LowerCase ==
    <<"a", "b", "c", "d", "e", "f", "g", "h", "i", "j", "k", "l", "m",
      "n", "o", "p", "q", "r", "s", "t", "u", "v", "w", "x", "y", "z">>

UpperCase ==
    <<"A", "B", "C", "D", "E", "F", "G", "H", "I", "J", "K", "L", "M",
      "N", "O", "P", "Q", "R", "S", "T", "U", "V", "W", "X", "Y", "Z">>

Range(s) == {s[k] : k \in DOMAIN s}

Minimum(S) == CHOOSE x \in S : \A y \in S : x <= y

Maximum(S) == CHOOSE x \in S : \A y \in S : y <= x

\* [A-Z]
isupper(c) == c \in Range(UpperCase)

\* str.lower and str.upper, one character
lower(c) ==
    IF isupper(c)
    THEN LowerCase[CHOOSE k \in DOMAIN UpperCase : UpperCase[k] = c]
    ELSE c

upper(c) ==
    IF c \in Range(LowerCase)
    THEN UpperCase[CHOOSE k \in DOMAIN LowerCase : LowerCase[k] = c]
    ELSE c

\* str.lower
str_lower(s) == [k \in DOMAIN s |-> lower(s[k])]

\* "".join(parts)
RECURSIVE join(_)
join(parts) ==
    IF Len(parts) = 0 THEN <<>> ELSE Head(parts) \o join(Tail(parts))

\* s.split(sep)
RECURSIVE split(_, _)
split(s, sep) ==
    IF \A k \in DOMAIN s : s[k] # sep THEN <<s>>
    ELSE LET p == Minimum({k \in DOMAIN s : s[k] = sep})
         IN <<SubSeq(s, 1, p - 1)>> \o split(SubSeq(s, p + 1, Len(s)), sep)

\* str.capitalize
capitalize(x) ==
    IF Len(x) = 0 THEN <<>> ELSE <<upper(x[1])>> \o str_lower(Tail(x))

\* re.sub(r'(?<!^)(?=[A-Z])', '_', name).lower()
to_snake(name) ==
    join([k \in DOMAIN name |->
             IF k > 1 /\ isupper(name[k]) THEN <<"_", lower(name[k])>>
             ELSE <<lower(name[k])>>])

\* "".join(x.capitalize() for x in snake_str.lower().split("_"))
to_camel_case(snake_str) ==
    LET parts == split(str_lower(snake_str), "_")
    IN join([k \in DOMAIN parts |-> capitalize(parts[k])])

\* snake_str[0].lower() + camel_string[1:], for a string that is not empty
to_lower_camel_case(snake_str) ==
    LET camel_string == to_camel_case(snake_str)
    IN <<lower(snake_str[1])>> \o SubSeq(camel_string, 2, Len(camel_string))

---------------------------------------------------------------------------
(* models.py: the record types *)

\* an annotation: the name T, or list[T]
Named(c) == [list |-> FALSE, of |-> c]

ListOf(c) == [list |-> TRUE, of |-> c]

\* dataclasses.Field: name, type, and whether the field has a default
\* (every default in models.py is None)
Field(name, type, hasDefault) ==
    [name |-> name, type |-> type, hasDefault |-> hasDefault]

\* class_dict: the names of the classes found in the module's namespace
class_dict == {
    "User", "Agent", "Chart", "ConstructionMaterial", "Construction",
    "ContractDeliverGood", "ContractPayment", "ContractTerms", "Contract", "Cooldown",
    "ExtractionYield", "FactionSymbol", "FactionTrait", "Faction", "JumpGate",
    "TradeGood", "MarketTradeGood", "MarketTransaction", "Market", "WaypointModifier",
    "WaypointTrait", "Waypoint", "Meta", "ShipCargoItem", "ShipCargo",
    "ShipCrew", "ShipRequirements", "ShipEngine", "ShipFrame", "ShipFuelConsumed",
    "ShipFuel", "ShipModule", "ShipMount", "ShipNavRouteWaypoint", "ShipNavRoute",
    "ShipNav", "ShipReactor", "ShipRegistration", "Ship", "SurveyDeposit",
    "Survey", "SystemWaypoint", "System"}

\* dataclasses.fields(model), for the class named model
fields == [model \in class_dict |->
    CASE model = "User" -> <<    \* class User, models.py:5-20
        Field(<<"u", "s", "e", "r", "n", "a", "m", "e">>,
              Named("str"), FALSE),
        Field(<<"c", "r", "e", "d", "i", "t", "s">>,
              Named("int"), FALSE),
        Field(<<"s", "h", "i", "p", "s">>,
              Named("Field"), FALSE)>>
      [] model = "Agent" -> <<    \* class Agent, models.py:23-30
        Field(<<"a", "c", "c", "o", "u", "n", "t", "_", "i", "d">>,
              Named("str"), FALSE),
        Field(<<"s", "y", "m", "b", "o", "l">>,
              Named("str"), FALSE),
        Field(<<"h", "e", "a", "d", "q", "u", "a", "r", "t", "e", "r", "s">>,
              Named("str"), FALSE),
        Field(<<"c", "r", "e", "d", "i", "t", "s">>,
              Named("int"), FALSE),
        Field(<<"s", "t", "a", "r", "t", "i", "n", "g", "_", "f", "a", "c", "t", "i", "o", "n">>,
              Named("int"), FALSE),
        Field(<<"s", "h", "i", "p", "_", "c", "o", "u", "n", "t">>,
              Named("int"), FALSE)>>
      [] model = "Chart" -> <<    \* class Chart, models.py:33-37
        Field(<<"s", "u", "b", "m", "i", "t", "t", "e", "d", "_", "b", "y">>,
              Named("str"), FALSE),
        Field(<<"s", "u", "b", "m", "i", "t", "t", "e", "d", "_", "o", "n">>,
              Named("str"), FALSE),
        Field(<<"w", "a", "y", "p", "o", "i", "n", "t", "_", "s", "y", "m", "b", "o", "l">>,
              Named("str"), TRUE)>>
      [] model = "ConstructionMaterial" -> <<    \* class ConstructionMaterial, models.py:40-44
        Field(<<"t", "r", "a", "d", "e", "S", "y", "m", "b", "o", "l">>,
              Named("str"), FALSE),
        Field(<<"r", "e", "q", "u", "i", "r", "e", "d">>,
              Named("int"), FALSE),
        Field(<<"f", "u", "l", "f", "i", "l", "l", "e", "d">>,
              Named("int"), FALSE)>>
      [] model = "Construction" -> <<    \* class Construction, models.py:47-51
        Field(<<"s", "y", "m", "b", "o", "l">>,
              Named("str"), FALSE),
        Field(<<"m", "a", "t", "e", "r", "i", "a", "l", "s">>,
              ListOf("ConstructionMaterial"), FALSE),
        Field(<<"i", "s", "C", "o", "m", "p", "l", "e", "t", "e">>,
              Named("bool"), FALSE)>>
      [] model = "ContractDeliverGood" -> <<    \* class ContractDeliverGood, models.py:54-59
        Field(<<"t", "r", "a", "d", "e", "_", "s", "y", "m", "b", "o", "l">>,
              Named("str"), FALSE),
        Field(<<"d", "e", "s", "t", "i", "n", "a", "t", "i", "o", "n", "_", "s", "y", "m", "b", "o", "l">>,
              Named("str"), FALSE),
        Field(<<"u", "n", "i", "t", "s", "_", "r", "e", "q", "u", "i", "r", "e", "d">>,
              Named("int"), FALSE),
        Field(<<"u", "n", "i", "t", "s", "_", "f", "u", "l", "f", "i", "l", "l", "e", "d">>,
              Named("int"), FALSE)>>
      [] model = "ContractPayment" -> <<    \* class ContractPayment, models.py:62-65
        Field(<<"o", "n", "_", "a", "c", "c", "e", "p", "t", "e", "d">>,
              Named("int"), FALSE),
        Field(<<"o", "n", "_", "f", "u", "l", "f", "i", "l", "l", "e", "d">>,
              Named("int"), FALSE)>>
      [] model = "ContractTerms" -> <<    \* class ContractTerms, models.py:68-72
        Field(<<"d", "e", "a", "d", "l", "i", "n", "e">>,
              Named("str"), FALSE),
        Field(<<"p", "a", "y", "m", "e", "n", "t">>,
              Named("ContractPayment"), FALSE),
        Field(<<"d", "e", "l", "i", "v", "e", "r">>,
              Named("ContractDeliverGood"), FALSE)>>
      [] model = "Contract" -> <<    \* class Contract, models.py:75-84
        Field(<<"i", "d">>,
              Named("str"), FALSE),
        Field(<<"f", "a", "c", "t", "i", "o", "n", "_", "s", "y", "m", "b", "o", "l">>,
              Named("str"), FALSE),
        Field(<<"t", "y", "p", "e">>,
              Named("str"), FALSE),
        Field(<<"t", "e", "r", "m", "s">>,
              ListOf("ContractTerms"), FALSE),
        Field(<<"a", "c", "c", "e", "p", "t", "e", "d">>,
              Named("bool"), FALSE),
        Field(<<"f", "u", "l", "f", "i", "l", "l", "e", "d">>,
              Named("bool"), FALSE),
        Field(<<"e", "x", "p", "i", "r", "a", "t", "i", "o", "n">>,
              Named("str"), FALSE),
        Field(<<"d", "e", "a", "d", "l", "i", "n", "e", "_", "t", "o", "_", "a", "c", "c", "e", "p", "t">>,
              Named("str"), FALSE)>>
      [] model = "Cooldown" -> <<    \* class Cooldown, models.py:87-92
        Field(<<"s", "h", "i", "p", "_", "s", "y", "m", "b", "o", "l">>,
              Named("str"), FALSE),
        Field(<<"t", "o", "t", "a", "l", "_", "s", "e", "c", "o", "n", "d", "s">>,
              Named("int"), FALSE),
        Field(<<"r", "e", "m", "a", "i", "n", "i", "n", "g", "_", "s", "e", "c", "o", "n", "d", "s">>,
              Named("int"), FALSE),
        Field(<<"e", "x", "p", "i", "r", "a", "t", "i", "o", "n">>,
              Named("str"), TRUE)>>
      [] model = "ExtractionYield" -> <<    \* class ExtractionYield, models.py:95-98
        Field(<<"s", "y", "m", "b", "o", "l">>,
              Named("str"), FALSE),
        Field(<<"u", "n", "i", "t", "s">>,
              Named("int"), FALSE)>>
      [] model = "FactionSymbol" -> <<    \* class FactionSymbol, models.py:101-103
        Field(<<"s", "y", "m", "b", "o", "l">>,
              Named("str"), FALSE)>>
      [] model = "FactionTrait" -> <<    \* class FactionTrait, models.py:106-110
        Field(<<"s", "y", "m", "b", "o", "l">>,
              Named("str"), FALSE),
        Field(<<"n", "a", "m", "e">>,
              Named("str"), FALSE),
        Field(<<"d", "e", "s", "c", "r", "i", "p", "t", "i", "o", "n">>,
              Named("str"), FALSE)>>
      [] model = "Faction" -> <<    \* class Faction, models.py:113-120
        Field(<<"s", "y", "m", "b", "o", "l">>,
              Named("str"), FALSE),
        Field(<<"n", "a", "m", "e">>,
              Named("str"), FALSE),
        Field(<<"d", "e", "s", "c", "r", "i", "p", "t", "i", "o", "n">>,
              Named("str"), FALSE),
        Field(<<"h", "e", "a", "d", "q", "u", "a", "r", "t", "e", "r", "s">>,
              Named("str"), FALSE),
        Field(<<"t", "r", "a", "i", "t", "s">>,
              ListOf("FactionTrait"), FALSE),
        Field(<<"i", "s", "_", "r", "e", "c", "r", "u", "i", "t", "i", "n", "g">>,
              Named("bool"), FALSE)>>
      [] model = "JumpGate" -> <<    \* class JumpGate, models.py:123-126
        Field(<<"s", "y", "m", "b", "o", "l">>,
              Named("str"), FALSE),
        Field(<<"c", "o", "n", "n", "e", "c", "t", "i", "o", "n", "s">>,
              ListOf("str"), FALSE)>>
      [] model = "TradeGood" -> <<    \* class TradeGood, models.py:129-133
        Field(<<"s", "y", "m", "b", "o", "l">>,
              Named("str"), FALSE),
        Field(<<"n", "a", "m", "e">>,
              Named("str"), FALSE),
        Field(<<"d", "e", "s", "c", "r", "i", "p", "t", "i", "o", "n">>,
              Named("str"), FALSE)>>
      [] model = "MarketTradeGood" -> <<    \* class MarketTradeGood, models.py:136-144
        Field(<<"s", "y", "m", "b", "o", "l">>,
              Named("str"), FALSE),
        Field(<<"t", "y", "p", "e">>,
              Named("str"), FALSE),
        Field(<<"t", "r", "a", "d", "e", "_", "v", "o", "l", "u", "m", "e">>,
              Named("int"), FALSE),
        Field(<<"s", "u", "p", "p", "l", "y">>,
              Named("str"), FALSE),
        Field(<<"a", "c", "t", "i", "v", "i", "t", "y">>,
              Named("str"), FALSE),
        Field(<<"p", "u", "r", "c", "h", "a", "s", "e", "_", "p", "r", "i", "c", "e">>,
              Named("int"), FALSE),
        Field(<<"s", "e", "l", "l", "_", "p", "r", "i", "c", "e">>,
              Named("int"), FALSE)>>
      [] model = "MarketTransaction" -> <<    \* class MarketTransaction, models.py:147-156
        Field(<<"w", "a", "y", "p", "o", "i", "n", "t", "_", "s", "y", "m", "b", "o", "l">>,
              Named("str"), FALSE),
        Field(<<"s", "h", "i", "p", "_", "s", "y", "m", "b", "o", "l">>,
              Named("str"), FALSE),
        Field(<<"t", "r", "a", "d", "e", "_", "s", "y", "m", "b", "o", "l">>,
              Named("str"), FALSE),
        Field(<<"t", "y", "p", "e">>,
              Named("str"), FALSE),
        Field(<<"u", "n", "i", "t", "s">>,
              Named("int"), FALSE),
        Field(<<"p", "r", "i", "c", "e", "_", "p", "e", "r", "_", "u", "n", "i", "t">>,
              Named("int"), FALSE),
        Field(<<"t", "o", "t", "a", "l", "_", "p", "r", "i", "c", "e">>,
              Named("int"), FALSE),
        Field(<<"t", "i", "m", "e", "s", "t", "a", "m", "p">>,
              Named("str"), FALSE)>>
      [] model = "Market" -> <<    \* class Market, models.py:159-166
        Field(<<"s", "y", "m", "b", "o", "l">>,
              Named("str"), FALSE),
        Field(<<"e", "x", "p", "o", "r", "t", "s">>,
              ListOf("TradeGood"), FALSE),
        Field(<<"i", "m", "p", "o", "r", "t", "s">>,
              ListOf("TradeGood"), FALSE),
        Field(<<"e", "x", "c", "h", "a", "n", "g", "e">>,
              ListOf("TradeGood"), FALSE),
        Field(<<"t", "r", "a", "n", "s", "a", "c", "t", "i", "o", "n", "s">>,
              ListOf("MarketTransaction"), TRUE),
        Field(<<"t", "r", "a", "d", "e", "_", "g", "o", "o", "d", "s">>,
              ListOf("MarketTradeGood"), TRUE)>>
      [] model = "WaypointModifier" -> <<    \* class WaypointModifier, models.py:169-173
        Field(<<"s", "y", "m", "b", "o", "l">>,
              Named("str"), FALSE),
        Field(<<"n", "a", "m", "e">>,
              Named("str"), FALSE),
        Field(<<"d", "e", "s", "c", "r", "i", "p", "t", "i", "o", "n">>,
              Named("str"), FALSE)>>
      [] model = "WaypointTrait" -> <<    \* class WaypointTrait, models.py:176-180
        Field(<<"s", "y", "m", "b", "o", "l">>,
              Named("str"), FALSE),
        Field(<<"n", "a", "m", "e">>,
              Named("str"), FALSE),
        Field(<<"d", "e", "s", "c", "r", "i", "p", "t", "i", "o", "n">>,
              Named("str"), FALSE)>>
      [] model = "Waypoint" -> <<    \* class Waypoint, models.py:183-195
        Field(<<"s", "y", "m", "b", "o", "l">>,
              Named("str"), FALSE),
        Field(<<"t", "y", "p", "e">>,
              Named("str"), FALSE),
        Field(<<"x">>,
              Named("int"), FALSE),
        Field(<<"y">>,
              Named("int"), FALSE),
        Field(<<"o", "r", "b", "i", "t", "a", "l", "s">>,
              ListOf("str"), FALSE),
        Field(<<"f", "a", "c", "t", "i", "o", "n">>,
              Named("FactionSymbol"), FALSE),
        Field(<<"t", "r", "a", "i", "t", "s">>,
              ListOf("WaypointTrait"), FALSE),
        Field(<<"m", "o", "d", "i", "f", "i", "e", "r", "s">>,
              ListOf("WaypointModifier"), FALSE),
        Field(<<"c", "h", "a", "r", "t">>,
              Named("Chart"), FALSE),
        Field(<<"i", "s", "_", "u", "n", "d", "e", "r", "_", "c", "o", "n", "s", "t", "r", "u", "c", "t", "i", "o", "n">>,
              Named("bool"), FALSE),
        Field(<<"o", "r", "b", "i", "t", "s">>,
              Named("str"), TRUE)>>
      [] model = "Meta" -> <<    \* class Meta, models.py:198-202
        Field(<<"t", "o", "t", "a", "l">>,
              Named("int"), FALSE),
        Field(<<"p", "a", "g", "e">>,
              Named("int"), FALSE),
        Field(<<"l", "i", "m", "i", "t">>,
              Named("int"), FALSE)>>
      [] model = "ShipCargoItem" -> <<    \* class ShipCargoItem, models.py:205-210
        Field(<<"s", "y", "m", "b", "o", "l">>,
              Named("str"), FALSE),
        Field(<<"n", "a", "m", "e">>,
              Named("str"), FALSE),
        Field(<<"d", "e", "s", "c", "r", "i", "p", "t", "i", "o", "n">>,
              Named("str"), FALSE),
        Field(<<"u", "n", "i", "t", "s">>,
              Named("int"), FALSE)>>
      [] model = "ShipCargo" -> <<    \* class ShipCargo, models.py:213-217
        Field(<<"c", "a", "p", "a", "c", "i", "t", "y">>,
              Named("int"), FALSE),
        Field(<<"u", "n", "i", "t", "s">>,
              Named("int"), FALSE),
        Field(<<"i", "n", "v", "e", "n", "t", "o", "r", "y">>,
              ListOf("ShipCargoItem"), FALSE)>>
      [] model = "ShipCrew" -> <<    \* class ShipCrew, models.py:220-227
        Field(<<"c", "u", "r", "r", "e", "n", "t">>,
              Named("int"), FALSE),
        Field(<<"r", "e", "q", "u", "i", "r", "e", "d">>,
              Named("int"), FALSE),
        Field(<<"c", "a", "p", "a", "c", "i", "t", "y">>,
              Named("int"), FALSE),
        Field(<<"r", "o", "t", "a", "t", "i", "o", "n">>,
              Named("str"), FALSE),
        Field(<<"m", "o", "r", "a", "l", "e">>,
              Named("int"), FALSE),
        Field(<<"w", "a", "g", "e", "s">>,
              Named("int"), FALSE)>>
      [] model = "ShipRequirements" -> <<    \* class ShipRequirements, models.py:230-234
        Field(<<"c", "r", "e", "w">>,
              Named("int"), FALSE),
        Field(<<"p", "o", "w", "e", "r">>,
              Named("int"), TRUE),
        Field(<<"s", "l", "o", "t", "s">>,
              Named("int"), TRUE)>>
      [] model = "ShipEngine" -> <<    \* class ShipEngine, models.py:237-244
        Field(<<"s", "y", "m", "b", "o", "l">>,
              Named("str"), FALSE),
        Field(<<"n", "a", "m", "e">>,
              Named("str"), FALSE),
        Field(<<"d", "e", "s", "c", "r", "i", "p", "t", "i", "o", "n">>,
              Named("str"), FALSE),
        Field(<<"c", "o", "n", "d", "i", "t", "i", "o", "n">>,
              Named("int"), FALSE),
        Field(<<"s", "p", "e", "e", "d">>,
              Named("int"), FALSE),
        Field(<<"r", "e", "q", "u", "i", "r", "e", "m", "e", "n", "t", "s">>,
              Named("ShipRequirements"), FALSE)>>
      [] model = "ShipFrame" -> <<    \* class ShipFrame, models.py:247-256
        Field(<<"s", "y", "m", "b", "o", "l">>,
              Named("str"), FALSE),
        Field(<<"n", "a", "m", "e">>,
              Named("str"), FALSE),
        Field(<<"d", "e", "s", "c", "r", "i", "p", "t", "i", "o", "n">>,
              Named("str"), FALSE),
        Field(<<"c", "o", "n", "d", "i", "t", "i", "o", "n">>,
              Named("int"), FALSE),
        Field(<<"m", "o", "d", "u", "l", "e", "_", "s", "l", "o", "t", "s">>,
              Named("int"), FALSE),
        Field(<<"m", "o", "u", "n", "t", "i", "n", "g", "_", "p", "o", "i", "n", "t", "s">>,
              Named("int"), FALSE),
        Field(<<"f", "u", "e", "l", "_", "c", "a", "p", "a", "c", "i", "t", "y">>,
              Named("int"), FALSE),
        Field(<<"r", "e", "q", "u", "i", "r", "e", "m", "e", "n", "t", "s">>,
              Named("ShipRequirements"), FALSE)>>
      [] model = "ShipFuelConsumed" -> <<    \* class ShipFuelConsumed, models.py:259-262
        Field(<<"a", "m", "o", "u", "n", "t">>,
              Named("int"), FALSE),
        Field(<<"t", "i", "m", "e", "s", "t", "a", "m", "p">>,
              Named("str"), FALSE)>>
      [] model = "ShipFuel" -> <<    \* class ShipFuel, models.py:265-269
        Field(<<"c", "u", "r", "r", "e", "n", "t">>,
              Named("int"), FALSE),
        Field(<<"c", "a", "p", "a", "c", "i", "t", "y">>,
              Named("int"), FALSE),
        Field(<<"c", "o", "n", "s", "u", "m", "e", "d">>,
              Named("ShipFuelConsumed"), FALSE)>>
      [] model = "ShipModule" -> <<    \* class ShipModule, models.py:272-279
        Field(<<"s", "y", "m", "b", "o", "l">>,
              Named("str"), FALSE),
        Field(<<"n", "a", "m", "e">>,
              Named("str"), FALSE),
        Field(<<"d", "e", "s", "c", "r", "i", "p", "t", "i", "o", "n">>,
              Named("str"), FALSE),
        Field(<<"r", "e", "q", "u", "i", "r", "e", "m", "e", "n", "t", "s">>,
              Named("ShipRequirements"), FALSE),
        Field(<<"c", "a", "p", "a", "c", "i", "t", "y">>,
              Named("int"), TRUE),
        Field(<<"r", "a", "n", "g", "e">>,
              Named("int"), TRUE)>>
      [] model = "ShipMount" -> <<    \* class ShipMount, models.py:282-289
        Field(<<"s", "y", "m", "b", "o", "l">>,
              Named("str"), FALSE),
        Field(<<"n", "a", "m", "e">>,
              Named("str"), FALSE),
        Field(<<"d", "e", "s", "c", "r", "i", "p", "t", "i", "o", "n">>,
              Named("str"), FALSE),
        Field(<<"s", "t", "r", "e", "n", "g", "t", "h">>,
              Named("int"), FALSE),
        Field(<<"r", "e", "q", "u", "i", "r", "e", "m", "e", "n", "t", "s">>,
              Named("ShipRequirements"), FALSE),
        Field(<<"d", "e", "p", "o", "s", "i", "t", "s">>,
              ListOf("str"), TRUE)>>
      [] model = "ShipNavRouteWaypoint" -> <<    \* class ShipNavRouteWaypoint, models.py:292-298
        Field(<<"s", "y", "m", "b", "o", "l">>,
              Named("str"), FALSE),
        Field(<<"t", "y", "p", "e">>,
              Named("str"), FALSE),
        Field(<<"s", "y", "s", "t", "e", "m", "_", "s", "y", "m", "b", "o", "l">>,
              Named("str"), FALSE),
        Field(<<"x">>,
              Named("int"), FALSE),
        Field(<<"y">>,
              Named("int"), FALSE)>>
      [] model = "ShipNavRoute" -> <<    \* class ShipNavRoute, models.py:301-306
        Field(<<"d", "e", "s", "t", "i", "n", "a", "t", "i", "o", "n">>,
              Named("ShipNavRouteWaypoint"), FALSE),
        Field(<<"o", "r", "i", "g", "i", "n">>,
              Named("ShipNavRouteWaypoint"), FALSE),
        Field(<<"d", "e", "p", "a", "r", "t", "u", "r", "e", "_", "t", "i", "m", "e">>,
              Named("str"), FALSE),
        Field(<<"a", "r", "r", "i", "v", "a", "l">>,
              Named("str"), FALSE)>>
      [] model = "ShipNav" -> <<    \* class ShipNav, models.py:309-315
        Field(<<"s", "y", "s", "t", "e", "m", "_", "s", "y", "m", "b", "o", "l">>,
              Named("str"), FALSE),
        Field(<<"w", "a", "y", "p", "o", "i", "n", "t", "_", "s", "y", "m", "b", "o", "l">>,
              Named("str"), FALSE),
        Field(<<"r", "o", "u", "t", "e">>,
              Named("ShipNavRoute"), FALSE),
        Field(<<"s", "t", "a", "t", "u", "s">>,
              Named("str"), FALSE),
        Field(<<"f", "l", "i", "g", "h", "t", "_", "m", "o", "d", "e">>,
              Named("str"), FALSE)>>
      [] model = "ShipReactor" -> <<    \* class ShipReactor, models.py:318-325
        Field(<<"s", "y", "m", "b", "o", "l">>,
              Named("str"), FALSE),
        Field(<<"n", "a", "m", "e">>,
              Named("str"), FALSE),
        Field(<<"d", "e", "s", "c", "r", "i", "p", "t", "i", "o", "n">>,
              Named("str"), FALSE),
        Field(<<"c", "o", "n", "d", "i", "t", "i", "o", "n">>,
              Named("int"), FALSE),
        Field(<<"p", "o", "w", "e", "r", "_", "o", "u", "t", "p", "u", "t">>,
              Named("int"), FALSE),
        Field(<<"r", "e", "q", "u", "i", "r", "e", "m", "e", "n", "t", "s">>,
              Named("ShipRequirements"), FALSE)>>
      [] model = "ShipRegistration" -> <<    \* class ShipRegistration, models.py:328-332
        Field(<<"n", "a", "m", "e">>,
              Named("str"), FALSE),
        Field(<<"f", "a", "c", "t", "i", "o", "n", "_", "s", "y", "m", "b", "o", "l">>,
              Named("str"), FALSE),
        Field(<<"r", "o", "l", "e">>,
              Named("str"), FALSE)>>
      [] model = "Ship" -> <<    \* class Ship, models.py:335-348
        Field(<<"s", "y", "m", "b", "o", "l">>,
              Named("str"), FALSE),
        Field(<<"r", "e", "g", "i", "s", "t", "r", "a", "t", "i", "o", "n">>,
              Named("ShipRegistration"), FALSE),
        Field(<<"n", "a", "v">>,
              Named("ShipNav"), FALSE),
        Field(<<"f", "r", "a", "m", "e">>,
              Named("ShipFrame"), FALSE),
        Field(<<"r", "e", "a", "c", "t", "o", "r">>,
              Named("ShipReactor"), FALSE),
        Field(<<"e", "n", "g", "i", "n", "e">>,
              Named("ShipEngine"), FALSE),
        Field(<<"m", "o", "u", "n", "t", "s">>,
              ListOf("ShipMount"), FALSE),
        Field(<<"c", "r", "e", "w">>,
              Named("ShipCrew"), TRUE),
        Field(<<"c", "o", "o", "l", "d", "o", "w", "n">>,
              Named("Cooldown"), TRUE),
        Field(<<"m", "o", "d", "u", "l", "e", "s">>,
              ListOf("ShipModule"), TRUE),
        Field(<<"c", "a", "r", "g", "o">>,
              Named("ShipCargo"), TRUE),
        Field(<<"f", "u", "e", "l">>,
              Named("ShipFuel"), TRUE)>>
      [] model = "SurveyDeposit" -> <<    \* class SurveyDeposit, models.py:351-353
        Field(<<"s", "y", "m", "b", "o", "l">>,
              Named("str"), FALSE)>>
      [] model = "Survey" -> <<    \* class Survey, models.py:356-362
        Field(<<"s", "i", "g", "n", "a", "t", "u", "r", "e">>,
              Named("str"), FALSE),
        Field(<<"s", "y", "m", "b", "o", "l">>,
              Named("str"), FALSE),
        Field(<<"d", "e", "p", "o", "s", "i", "t", "s">>,
              ListOf("SurveyDeposit"), FALSE),
        Field(<<"e", "x", "p", "i", "r", "a", "t", "i", "o", "n">>,
              Named("str"), FALSE),
        Field(<<"s", "i", "z", "e">>,
              Named("str"), FALSE)>>
      [] model = "SystemWaypoint" -> <<    \* class SystemWaypoint, models.py:365-372
        Field(<<"s", "y", "m", "b", "o", "l">>,
              Named("str"), FALSE),
        Field(<<"t", "y", "p", "e">>,
              Named("str"), FALSE),
        Field(<<"x">>,
              Named("int"), FALSE),
        Field(<<"y">>,
              Named("int"), FALSE),
        Field(<<"o", "r", "b", "i", "t", "a", "l", "s">>,
              ListOf("str"), FALSE),
        Field(<<"o", "r", "b", "i", "t", "s">>,
              Named("str"), TRUE)>>
      [] model = "System" -> <<    \* class System, models.py:375-383
        Field(<<"s", "y", "m", "b", "o", "l">>,
              Named("str"), FALSE),
        Field(<<"s", "e", "c", "t", "o", "r", "_", "s", "y", "m", "b", "o", "l">>,
              Named("str"), FALSE),
        Field(<<"t", "y", "p", "e">>,
              Named("str"), FALSE),
        Field(<<"x">>,
              Named("int"), FALSE),
        Field(<<"y">>,
              Named("int"), FALSE),
        Field(<<"w", "a", "y", "p", "o", "i", "n", "t", "s">>,
              ListOf("SystemWaypoint"), FALSE),
        Field(<<"f", "a", "c", "t", "i", "o", "n", "s">>,
              ListOf("FactionSymbol"), FALSE)>>]

\* list_dict[list[obj]] = obj
list_dict == [ty \in {ListOf(c) : c \in class_dict} |-> ty.of]

\* the two dicts after the loop that fills them when the module is
\* imported: class_dict[name] = obj and list_dict[list[obj]] = obj
Registry ==
    [class_dict |-> [name \in class_dict |-> Named(name)],
     list_dict |-> list_dict]

\* mutant: parser enters the model it is given under list_dict
after_parser_registering(reg, model) ==
    [reg EXCEPT !.list_dict =
        [ty \in DOMAIN reg.list_dict \cup {model} |->
            IF ty \in DOMAIN reg.list_dict THEN reg.list_dict[ty] ELSE model.of]]

\* the two dicts after a call of parser: it tests `model in list_dict`,
\* reads list_dict[model] and class_dict.values(), and assigns to neither
after_parser(reg, model) == reg

\* the two dicts after a call of unpack: it reads class_dict.values()
after_unpack(reg) == reg

\* `i.type in class_dict.values()`
is_class(type) == ~type.list /\ type.of \in class_dict

---------------------------------------------------------------------------
(* models.py: values.  A JSON value is a scalar, None, a list or a dict;   *)
(* an instance of a record type holds its attributes in declaration order. *)

Prim(ty, v) == [v |-> v, t |-> "prim", cls |-> ty, items |-> <<>>]

\* an attribute that was never set
None_unset == [v |-> <<>>, t |-> "nothing", cls |-> "", items |-> <<>>]

None == [v |-> <<>>, t |-> "None", cls |-> "NoneType", items |-> <<>>]

List(elems) == [v |-> <<>>, t |-> "list", cls |-> "list", items |-> elems]

\* one entry of a dict, or one attribute of an instance
Item(key, value) == [value |-> value, key |-> key]

Dict(items) == [v |-> <<>>, t |-> "dict", cls |-> "dict", items |-> items]

Obj(cls, attrs) == [v |-> <<>>, t |-> "obj", cls |-> cls, items |-> attrs]

\* the call did not return: it raised exc
Raise(exc) == [v |-> <<>>, t |-> "raise", cls |-> exc, items |-> <<>>]

\* no name converted yet
NoNames == [wire |-> <<>>, field |-> <<>>, snake |-> <<>>, back |-> <<>>]

\* no value yet
Nothing == [v |-> <<>>, t |-> "nothing", cls |-> "", items |-> <<>>]

\* a loop that fails on an entry it stored nothing for
FirstRaise_unexpected(results) ==
    IF \E k \in DOMAIN results : results[k].t = "nothing"
    THEN Raise("TypeError")
    ELSE LET bad == {k \in DOMAIN results : results[k].t = "raise"}
         IN IF bad = {} THEN Nothing ELSE results[Minimum(bad)]

\* the results of a loop that stops at the first exception
FirstRaise(results) ==
    LET bad == {k \in DOMAIN results : results[k].t = "raise"}
    IN IF bad = {} THEN Nothing ELSE results[Minimum(bad)]

---------------------------------------------------------------------------
(* models.py: parser and unpack *)

RECURSIVE parser(_, _)
parser(data, model) ==
    IF model \in DOMAIN list_dict
    THEN \* for i in data: result.append(parser(data=i, model=list_dict[model]))
         IF data.t = "list"
         THEN LET parsed == [k \in DOMAIN data.items |->
                                parser(data.items[k], Named(list_dict[model]))]
              IN IF FirstRaise(parsed) # Nothing THEN FirstRaise(parsed)
                 ELSE List(parsed)
         ELSE IF data.t = "dict" \/ (data.t = "prim" /\ data.cls = "str")
         THEN \* the keys of a dict, the characters of a str: none has .items
              IF Len(data.items) = 0 /\ Len(data.v) = 0 THEN List(<<>>)
              ELSE Raise("AttributeError")
         ELSE Raise("TypeError")            \* not iterable
    ELSE IF data.t # "dict" THEN Raise("AttributeError")     \* data.items()
    ELSE IF model.list \/ model.of \notin class_dict
    THEN Raise("TypeError")     \* fields(model) of something that is no dataclass
    ELSE LET fs == fields[model.of]
             \* the field `i.name == to_snake(key)` finds for entry k
             found(k) == LET name == to_snake(data.items[k].key)
                         IN {n \in DOMAIN fs : fs[n].name = name}
             \* what entry k stores in class_info
             stored(k) ==
                 LET type == fs[Minimum(found(k))].type
                     value == data.items[k].value
                 IN IF type \in DOMAIN list_dict THEN parser(value, type)
                    ELSE IF is_class(type) THEN parser(value, type)
                    ELSE value
             results == [k \in DOMAIN data.items |->
                            IF found(k) = {} THEN Nothing ELSE stored(k)]
             \* the entries that set field n; the last one wins
             setters(n) == {k \in DOMAIN data.items : n \in found(k)}
             missing == {n \in DOMAIN fs : setters(n) = {} /\ ~fs[n].hasDefault}
         IN IF FirstRaise(results) # Nothing THEN FirstRaise(results)
            ELSE IF missing # {} THEN Raise("TypeError")    \* model(**class_info)
            ELSE Obj(model.of,
                     [n \in DOMAIN fs |->
                         Item(fs[n].name,
                              IF setters(n) = {} THEN None
                              ELSE results[Maximum(setters(n))])])

RECURSIVE unpack(_)
unpack(k) ==
    IF k.t = "list"
    THEN LET unpacked == [n \in DOMAIN k.items |-> unpack(k.items[n])]
         IN IF FirstRaise(unpacked) # Nothing THEN FirstRaise(unpacked)
            ELSE List(unpacked)
    ELSE IF k.t \in {"dict", "obj"}
    THEN LET \* `if type(value) is list or type(value) in class_dict.values()`
             values == [n \in DOMAIN k.items |->
                           LET value == k.items[n].value
                           IN IF value.t \in {"list", "obj"} THEN unpack(value)
                              ELSE value]
             keys == [n \in DOMAIN k.items |-> to_lower_camel_case(k.items[n].key)]
             \* res[key] = value: a key keeps its first place and its last value
             first(n) == \A m \in 1..(n - 1) : keys[m] # keys[n]
             last(n) == Maximum({m \in DOMAIN keys : keys[m] = keys[n]})
             places == SelectSeq([n \in DOMAIN keys |-> n], first)
         IN IF FirstRaise(values) # Nothing THEN FirstRaise(values)
            ELSE Dict([p \in DOMAIN places |->
                          Item(keys[places[p]], values[last(places[p])])])
    ELSE Raise("AttributeError")            \* k.__dict__

---------------------------------------------------------------------------
(* Payloads as the API sends them *)

\* longest list in a payload
MaxLen == 2

Digits == <<"1", "2", "3", "4", "5", "6", "7", "8", "9">>

\* a value of the shape type asks for, with lists of n elements; scalars
\* are named after the field (tag) so that no two fields hold the same
RECURSIVE sample(_, _, _)
sample(type, n, tag) ==
    IF type \in DOMAIN list_dict
    THEN List([j \in 1..n |-> sample(Named(type.of), n, tag)])
    ELSE IF is_class(type)
    THEN Dict([m \in DOMAIN fields[type.of] |->
                  LET f == fields[type.of][m]
                  IN Item(to_lower_camel_case(f.name), sample(f.type, n, f.name))])
    ELSE IF type.list
    THEN List([j \in 1..n |-> Prim(type.of, tag \o <<Digits[j]>>)])
    ELSE Prim(type.of, tag)

\* the payload of a record type: every declared field under its wire name
wire_payload(cls, n) == sample(Named(cls), n, <<>>)

\* the payload without its m-th entry
without(payload, m) ==
    Dict([k \in 1..(Len(payload.items) - 1) |->
             IF k < m THEN payload.items[k] ELSE payload.items[k + 1]])

\* the payload with one more entry, under a key no record type declares
with_unknown(payload) ==
    Dict(Append(payload.items,
                Item(<<"z", "z", "T", "o", "p">>, Prim("str", <<"z">>))))

\* the payloads a record type is parsed from
Payloads(cls) ==
    {wire_payload(cls, n) : n \in 0..MaxLen}
    \cup {without(wire_payload(cls, 1), m) : m \in DOMAIN fields[cls]}
    \cup {with_unknown(wire_payload(cls, 1))}

\* the payload with the digit j added to each of its scalars: element j of
\* an array, told from the other elements by its values
marked(payload, j) ==
    Dict([k \in DOMAIN payload.items |->
             LET value == payload.items[k].value
             IN Item(payload.items[k].key,
                     IF value.t = "prim" /\ value.cls # "bool"
                     THEN Prim(value.cls, value.v \o <<Digits[j]>>)
                     ELSE value)])

\* the payload arrays a list of a record type is parsed from: n elements
\* as the API sends them, and one array whose last element lacks its
\* first key
Arrays(cls) ==
    {List([j \in 1..n |-> marked(wire_payload(cls, 1), j)]) : n \in 0..MaxLen}
    \cup {List(<<marked(wire_payload(cls, 1), 1), without(wire_payload(cls, 1), 1)>>)}

\* every field name declared in models.py
FieldNames ==
    UNION {{fields[c][m].name : m \in DOMAIN fields[c]} : c \in class_dict}

---------------------------------------------------------------------------
(* SpacePyTradersV2 Fleet.siphon_resources: what it builds from the        *)
(* decoded body generic_api_call returned                                  *)

\* the keys of the decoded body and of the dict returned
k_data == <<"d", "a", "t", "a">>

k_cooldown == <<"c", "o", "o", "l", "d", "o", "w", "n">>

k_siphon == <<"s", "i", "p", "h", "o", "n">>

k_extraction == <<"e", "x", "t", "r", "a", "c", "t", "i", "o", "n">>

k_shipSymbol == <<"s", "h", "i", "p", "S", "y", "m", "b", "o", "l">>

k_ship_symbol == <<"s", "h", "i", "p", "_", "s", "y", "m", "b", "o", "l">>

k_yield == <<"y", "i", "e", "l", "d">>

k_cargo == <<"c", "a", "r", "g", "o">>

k_events == <<"e", "v", "e", "n", "t", "s">>

k_symbol == <<"s", "y", "m", "b", "o", "l">>

\* d[key]
getitem(d, key) ==
    IF d.t = "raise" THEN d
    ELSE IF d.t # "dict" THEN Raise("TypeError")
    ELSE LET at == {k \in DOMAIN d.items : d.items[k].key = key}
         IN IF at = {} THEN Raise("KeyError") ELSE d.items[Maximum(at)].value

\* models.parser(d[key], models.<type>): the subscript is evaluated first,
\* then the attribute of the models module, then the call
parsed_at(d, key, type) ==
    LET x == getitem(d, key)
    IN IF x.t = "raise" THEN x
       ELSE IF type.of \notin class_dict THEN Raise("AttributeError")
       ELSE parser(x, type)

\* the key siphon_resources reads the yield under: res['data']['extraction']
yield_key == k_extraction

\* the dict siphon_resources returns for the decoded body res, or the
\* exception its dict display raises (the entries are evaluated in order)
siphon_resources(res) ==
    LET data == getitem(res, k_data)
        \* the values of the dict display, in the order they are evaluated:
        \* the dict subscripted, the key, and the model given to parser
        reads == <<<<data, k_cooldown, Named("Cooldown")>>,
                   <<getitem(data, k_siphon), k_shipSymbol, Nothing>>,
                   <<getitem(data, yield_key), k_yield,
                     Named("ExtractionYield")>>,
                   <<data, k_cargo, Named("ShipCargo")>>,
                   <<data, k_events, ListOf("ShipConditionEvent")>>>>
        parts == [n \in DOMAIN reads |->
                     IF reads[n][3] = Nothing
                     THEN getitem(reads[n][1], reads[n][2])
                     ELSE parsed_at(reads[n][1], reads[n][2], reads[n][3])]
    IN IF FirstRaise(parts) # Nothing THEN FirstRaise(parts)
       ELSE Dict(<<Item(k_cooldown, parts[1]),
                   Item(k_siphon,
                        Dict(<<Item(k_ship_symbol, parts[2]),
                               Item(k_yield, parts[3])>>)),
                   Item(k_cargo, parts[4]),
                   Item(k_events, parts[5])>>)

\* data.siphon / data.extraction of the API: {shipSymbol, yield}
Yielded ==
    Dict(<<Item(k_shipSymbol, Prim("str", k_shipSymbol)),
           Item(k_yield, wire_payload("ExtractionYield", 1))>>)

\* the decoded bodies of a successful siphon: data holds cooldown, siphon,
\* cargo and n events; `both`: it holds an extraction entry as well
SiphonBody(n, both) ==
    LET entries == <<Item(k_cooldown, wire_payload("Cooldown", 1)),
                     Item(k_siphon, Yielded),
                     Item(k_cargo, wire_payload("ShipCargo", 1)),
                     Item(k_events,
                          List([j \in 1..n |->
                                   Dict(<<Item(k_symbol,
                                               Prim("str", <<Digits[j]>>))>>)]))>>
    IN Dict(<<Item(k_data,
                   Dict(IF both
                        THEN Append(entries, Item(k_extraction, Yielded))
                        ELSE entries))>>)

---------------------------------------------------------------------------
(* The state machine *)

\* Api(token=tok): the Api object and every facade hold the same token
InitWith(tok) ==
    /\ variant \in Variants
    /\ tokens = [h \in Holders(variant) |-> tok]
    /\ facade = "client"
    /\ op = ""
    /\ headers = NoHeaders
    /\ posted = NoPost
    /\ tpc = [t \in Threads |-> "idle"]
    /\ napLeft = [t \in Threads |-> 0]
    /\ slept = [t \in Threads |-> FALSE]
    /\ admitted = 0
    /\ dispatched = 0
    /\ ppc = "idle"
    /\ target = Named("")
    /\ input = Nothing
    /\ instance = Nothing
    /\ output = Nothing
    /\ names = NoNames
    /\ registry = Registry
    /\ elapsed = 0              \* last_reset = clock() when the module is imported
    /\ num_calls = 0
    /\ sent = <<>>
    /\ sincePause = 0
    /\ waited = 0
    /\ pc = "idle"
    /\ kind = "direct"
    /\ method = "GET"
    /\ raw_res = FALSE
    /\ throttle_time = DefaultThrottle
    /\ i = 0
    /\ reqs = 0
    /\ net = 0
    /\ wire = NoWire
    /\ lastResp = NoResp
    /\ decodes = 0
    /\ raised = ""
    /\ naps = <<>>
    /\ log = <<>>
    /\ result = NoValue
    /\ ret = NoValue

Init == InitWith("T1")

\* d ticks pass while the caller does something else
Pause(d) ==
    /\ pc = "idle"
    /\ elapsed' = Min(period, elapsed + d)
    /\ sent' = Aged(sent, d)
    /\ sincePause' = 0
    /\ UNCHANGED <<variant, num_calls, waited, pc, kind, method, raw_res,
                   throttle_time, i, reqs, net, wire, lastResp, decodes,
                   raised, naps, log, result, ret, authVars, threadVars,
                   modelVars>>

\* mutant: every method hands its request to generic_api_call
caller_always_generic(o) == "generic_api_call"

\* the function whose body calls make_request on behalf of method o
caller(o) ==
    IF o = "Api.register_new_agent" THEN "Api.register_new_agent"
    ELSE "generic_api_call"

\* method o of object f (kind k) calls generic_api_call with token=tok;
\* `'Bearer ' + token` raises TypeError when tok is None, before the loop
Enter(f, o, k, m, raw, t, tok) ==
    /\ pc = "idle"
    /\ facade' = f
    /\ op' = o
    /\ kind' = k
    /\ method' = m
    /\ raw_res' = raw
    /\ throttle_time' = t
    /\ headers' = IF tok = NoToken THEN NoHeaders ELSE Bearer(tok)
    /\ posted' = NoPost
    /\ pc' = IF tok = NoToken THEN "returned" ELSE "acquire"
    /\ result' = IF tok = NoToken THEN Value("raise", "TypeError") ELSE NoValue
    /\ i' = 0
    /\ reqs' = 0
    /\ net' = 0
    /\ wire' = NoWire
    /\ lastResp' = NoResp
    /\ decodes' = 0
    /\ raised' = ""
    /\ naps' = <<>>
    /\ log' = <<>>
    /\ waited' = 0
    /\ ret' = NoValue
    /\ UNCHANGED <<variant, elapsed, num_calls, sent, sincePause, tokens, threadVars,
                   modelVars>>

\* the limiter's wrapper lets the call through
Acquire ==
    /\ pc = "acquire"
    /\ ~rate_limited
    /\ elapsed' = IF window_expired THEN 0 ELSE elapsed
    /\ num_calls' = counted
    /\ pc' = "send"
    /\ UNCHANGED <<variant, sent, sincePause, waited, kind, method, raw_res,
                   throttle_time, i, reqs, net, wire, lastResp, decodes,
                   raised, naps, log, result, ret, authVars, threadVars,
                   modelVars>>

\* the limiter's wrapper raises RateLimitException(period_remaining);
\* sleep_and_retry sleeps that long and calls the wrapper again
Wait ==
    /\ pc = "acquire"
    /\ rate_limited
    /\ num_calls' = counted
    /\ elapsed' = Min(period, elapsed + period_remaining)
    /\ sent' = Aged(sent, period_remaining)
    /\ sincePause' = Min(period, sincePause + period_remaining)
    /\ waited' = waited + period_remaining
    /\ UNCHANGED <<variant, pc, kind, method, raw_res, throttle_time, i,
                   reqs, net, wire, lastResp, decodes, raised, naps, log,
                   result, ret, authVars, threadVars,
                   modelVars>>

\* one iteration of the loop of generic_api_call from the body of
\* make_request on: the network call, the classification of the answer,
\* the except clause, and the end of the loop
Attempt(resp, lat) ==
    /\ pc = "send"
    /\ op # "Api.register_new_agent"
    /\   LET mr == make_request(variant, method)
             r == IF mr.sends THEN resp ELSE NoResp
             t == try_body(variant, r, raw_res)
             clause == IF t.out = "raise" THEN except_clause(t.exc) ELSE ""
             retry == clause \in {"throttle", "server"}
             nap == sleep_time(clause, throttle_time)
             d == (IF mr.sends THEN lat ELSE 0) + nap
             over == range_exhausted(i + 1)
         IN \* no network call: no answer and no latency to choose
            /\ (~mr.sends) => (lat = 0 /\ resp.kind = "raise")
            /\ reqs' = reqs + 1
            /\ net' = IF mr.sends THEN net + 1 ELSE net
            /\ wire' = IF mr.sends
                       THEN [verb |-> method, carrier |-> mr.carrier]
                       ELSE wire
            /\ posted' = IF mr.sends
                         THEN [headers |-> headers, by |-> caller(op)]
                         ELSE posted
            /\ lastResp' = r
            /\ decodes' = t.decodes
            /\ raised' = IF t.out = "raise" THEN t.exc ELSE ""
            /\ log' = mr.log \o t.log \o except_log(clause)
            /\ naps' = IF retry THEN Append(naps, nap) ELSE naps
            /\ sent' = Aged(IF mr.sends THEN Append(sent, 0) ELSE sent, d)
            /\ elapsed' = Min(period, elapsed + d)
            /\ sincePause' = IF nap > 0 THEN 0 ELSE Min(period, sincePause + d)
            /\ i' = IF retry THEN i + 1 ELSE i
            /\ pc' = IF retry /\ ~over THEN "acquire" ELSE "returned"
            /\ result' = IF retry
                         THEN IF over THEN Value("raise", "TooManyTriesException")
                              ELSE NoValue
                         ELSE IF t.out = "return" THEN t.value
                         ELSE Value("exception", t.exc)
            /\ waited' = IF retry /\ ~over THEN 0 ELSE waited
    /\ UNCHANGED <<variant, num_calls, kind, method, raw_res, throttle_time,
                   ret, tokens, facade, op, headers, threadVars,
                   modelVars>>

\* generic_api_call has ended; the endpoint method ends
Finish ==
    /\ pc = "returned"
    /\ op # "Api.register_new_agent"
    /\ ret' = endpoint_return(kind, result)
    /\ pc' = "idle"
    /\ UNCHANGED <<variant, elapsed, num_calls, sent, sincePause, waited,
                   kind, method, raw_res, throttle_time, i, reqs, net, wire,
                   lastResp, decodes, raised, naps, log, result, authVars, threadVars,
                   modelVars>>

\* Api.register_new_agent (SpacePyTraders) calls make_request itself, with
\* headers={}
EnterApi ==
    /\ pc = "idle"
    /\ variant = "V1"
    /\ facade' = "api"
    /\ op' = "Api.register_new_agent"
    /\ kind' = "aggregator"
    /\ method' = "POST"
    /\ raw_res' = FALSE
    /\ headers' = NoHeaders
    /\ posted' = NoPost
    /\ pc' = "acquire"
    /\ result' = NoValue
    /\ i' = 0
    /\ reqs' = 0
    /\ net' = 0
    /\ wire' = NoWire
    /\ lastResp' = NoResp
    /\ decodes' = 0
    /\ raised' = ""
    /\ naps' = <<>>
    /\ log' = <<>>
    /\ waited' = 0
    /\ ret' = NoValue
    /\ UNCHANGED <<variant, elapsed, num_calls, sent, sincePause, tokens,
                   throttle_time, threadVars,
                   modelVars>>

\* `if res.ok`
ok(r) == r.status < 400

\* what Api.register_new_agent does with the answer r of its one network
\* call: the exception that leaves it ("" for none), the value it returns,
\* whether it stores the token, what it logs, the r.json() calls
Registration(exc, value, stores, lg, dec) ==
    [decodes |-> dec, log |-> lg, value |-> value, exc |-> exc, stores |-> stores]

register_new_agent(r) ==
    IF r.kind = "raise"
    THEN Registration("ConnectionError", NoValue, FALSE, <<>>, 0)
    ELSE IF ok(r)
    THEN IF r.kind = "undecodable"          \* res.json()
         THEN Registration("JSONDecodeError", NoValue, FALSE, <<>>, 1)
         ELSE IF r.kind = "error"           \* .get("data") is None
         THEN Registration("AttributeError", NoValue, FALSE, <<>>, 1)
         ELSE Registration("", Value("raw", r.kind), TRUE, <<>>, 1)
    ELSE Registration("", Value("False", ""), FALSE,
                      <<Rec("WARNING", "warning_log", "", 0),
                        Rec("WARNING", "res.text", "", 0)>>, 0)

\* the rest of Api.register_new_agent from the body of make_request on
ApiRegistered(resp) ==
    /\ pc = "send"
    /\ op = "Api.register_new_agent"
    /\   LET mr == make_request(variant, method)
             g == register_new_agent(resp)
         IN /\ reqs' = reqs + 1
            /\ net' = net + 1
            /\ wire' = [verb |-> method, carrier |-> mr.carrier]
            /\ posted' = [headers |-> headers, by |-> caller(op)]
            /\ lastResp' = resp
            /\ decodes' = g.decodes
            /\ raised' = g.exc
            /\ log' = mr.log \o g.log
            /\ sent' = Aged(Append(sent, 0), 0)
            /\ tokens' = IF g.stores
                         THEN [h \in DOMAIN tokens |->
                                  IF h \in Registered \cup {"api"} THEN "T2"
                                  ELSE tokens[h]]
                         ELSE tokens
            /\ ret' = IF g.exc # "" THEN Value("raise", g.exc) ELSE g.value
    /\ pc' = "idle"
    /\ UNCHANGED <<variant, elapsed, num_calls, sincePause, waited, kind,
                   method, raw_res, throttle_time, i, naps, result, facade,
                   op, headers, threadVars,
                   modelVars>>

---------------------------------------------------------------------------
(* Spec: every caller, every verb, every answer; the network answers at   *)
(* once and the caller pauses for a whole limiter period                   *)

LongPause == Pause(period)

Call ==
    \E k \in Kinds(variant), raw \in BOOLEAN, t \in ThrottleTimes :
        \E m \in MethodsOf(k) :
            Enter(IF k = "direct" THEN "client" ELSE "fleet",
                  IF k = "direct" THEN "generic_api_call" ELSE "endpoint",
                  k, m, raw, t, "T1")

Send == \E resp \in Responses : Attempt(resp, 0)

Next == LongPause \/ Call \/ Acquire \/ Wait \/ Send \/ Finish

Spec == Init /\ [][Next]_vars

\* the thread that runs the call is scheduled until the call has ended,
\* and every network call is answered or raises
CallFairness ==
    /\ WF_vars(Acquire)
    /\ WF_vars(Wait)
    /\ WF_vars(Send)
    /\ WF_vars(Finish)

\* generic_api_call called directly, with every verb and every answer
CallGeneric ==
    \E raw \in BOOLEAN, t \in ThrottleTimes :
        \E m \in MethodsOf("direct") :
            Enter("client", "generic_api_call", "direct", m, raw, t, "T1")

NextGeneric == LongPause \/ CallGeneric \/ Acquire \/ Wait \/ Send \/ Finish

SpecFair == Init /\ [][NextGeneric]_vars /\ CallFairness

---------------------------------------------------------------------------
(* SpecTimed: direct callers only; the caller pauses tick by tick and the  *)
(* network takes up to MaxLatency ticks to answer                          *)

Tick == Pause(1)

CallDirect ==
    \E m \in {"GET", "HEAD"}, t \in ThrottleTimes :
        Enter("client", "generic_api_call", "direct", m, FALSE, t, "T1")

SendSlow == \E resp \in Responses, lat \in 0..MaxLatency : Attempt(resp, lat)

NextTimed == Tick \/ CallDirect \/ Acquire \/ Wait \/ SendSlow \/ Finish

SpecTimed == Init /\ [][NextTimed]_vars

---------------------------------------------------------------------------
(* SpecAuth: the endpoint methods of every facade and the two             *)
(* registration methods, on an Api object built with or without a token   *)

InitAuth == \E tok \in {NoToken, "T1"} : InitWith(tok)

\* the answers a registration or an endpoint call meets
AuthResponses ==
    {Resp("raise", 0, 0, FALSE, FALSE),
     Resp("data", 200, 0, FALSE, FALSE),
     Resp("data", 400, 0, FALSE, FALSE),
     Resp("undecodable", 200, 0, FALSE, FALSE),
     Resp("error", 200, 4000, TRUE, TRUE),
     Resp("error", 400, 4000, TRUE, TRUE),
     Resp("error", 400, 42901, TRUE, TRUE)}

\* an endpoint method of facade f: token=self.token
CallEndpoint ==
    \E f \in Facades(variant), k \in Kinds(variant) \ {"direct"}, raw \in BOOLEAN :
        Enter(f, "endpoint", k, "GET", raw, 0, tokens[f])

\* Agent.register_new_agent: token=""
CallRegister ==
    \E raw \in BOOLEAN :
        Enter("agent", "register_new_agent",
              IF variant = "V2" THEN "aggregate" ELSE "passthrough",
              "POST", raw, 0, "")

CallApiRegister == EnterApi

SendAuth == \E resp \in AuthResponses : Attempt(resp, 0)

ApiAnswer == \E resp \in AuthResponses : ApiRegistered(resp)

NextAuth ==
    \/ LongPause \/ CallEndpoint \/ CallRegister \/ CallApiRegister
    \/ Acquire \/ Wait \/ SendAuth \/ ApiAnswer \/ Finish

SpecAuth == InitAuth /\ [][NextAuth]_vars

---------------------------------------------------------------------------
(* SpecThreads: NThreads threads call make_request on one limiter.  The    *)
(* limiter counts under its lock (one step); the decorated function, and   *)
(* with it the network call, runs after the lock is released (a later      *)
(* step).  The threads' network calls are counted per limiter window      *)
(* (admitted, dispatched); sent is the record of the single caller of the  *)
(* other specifications.                                                   *)

\* what the threads leave alone
pipeVars == <<variant, sincePause, waited, pc, kind, method, raw_res,
              throttle_time, i, reqs, net, wire, lastResp, decodes, raised,
              naps, log, result, ret, authVars, modelVars>>

\* mutant: RateLimitException is not caught
on_rate_limit_raise == "raised"

\* sleep_and_retry: `except RateLimitException as exception:
\* time.sleep(exception.period_remaining)`
on_rate_limit == "asleep"

\* thread t calls make_request
TCall(t) ==
    /\ tpc[t] = "idle"
    /\ tpc' = [tpc EXCEPT ![t] = "acquire"]
    /\ slept' = [slept EXCEPT ![t] = FALSE]
    /\ UNCHANGED <<elapsed, num_calls, sent, napLeft, admitted, dispatched,
                   pipeVars>>

\* `with self.lock:` the call is counted and let through
TAcquire(t) ==
    /\ tpc[t] = "acquire"
    /\ ~rate_limited
    /\ elapsed' = IF window_expired THEN 0 ELSE elapsed
    /\ num_calls' = counted
    /\ admitted' = (IF window_expired THEN 0 ELSE admitted) + 1
    /\ dispatched' = IF window_expired THEN 0 ELSE dispatched
    /\ tpc' = [tpc EXCEPT ![t] = "send"]
    /\ UNCHANGED <<sent, napLeft, slept, pipeVars>>

\* `with self.lock:` the call is counted and RateLimitException is raised
TLimited(t) ==
    /\ tpc[t] = "acquire"
    /\ rate_limited
    /\ num_calls' = counted
    /\ tpc' = [tpc EXCEPT ![t] = on_rate_limit]
    /\ napLeft' = [napLeft EXCEPT ![t] = period_remaining]
    /\ slept' = [slept EXCEPT ![t] = TRUE]
    /\ UNCHANGED <<elapsed, sent, admitted, dispatched, pipeVars>>

\* time.sleep has ended: the loop of sleep_and_retry calls the limiter again
TWake(t) ==
    /\ tpc[t] = "asleep"
    /\ napLeft[t] = 0
    /\ tpc' = [tpc EXCEPT ![t] = "acquire"]
    /\ UNCHANGED <<elapsed, num_calls, sent, napLeft, slept, admitted,
                   dispatched, pipeVars>>

\* `return func(*args, **kargs)`: the body of make_request makes the
\* network call and returns
TDispatch(t) ==
    /\ tpc[t] = "send"
    /\ dispatched' = dispatched + 1
    /\ tpc' = [tpc EXCEPT ![t] = "idle"]
    /\ UNCHANGED <<elapsed, num_calls, napLeft, slept, admitted, sent, pipeVars>>

\* one tick passes
TTick ==
    /\ elapsed' = Min(period, elapsed + 1)
    /\ napLeft' = [t \in Threads |-> IF napLeft[t] > 0 THEN napLeft[t] - 1 ELSE 0]
    /\ UNCHANGED <<num_calls, tpc, slept, admitted, dispatched, sent, pipeVars>>

TCalls == \E t \in Threads : TCall(t)

TAcquires == \E t \in Threads : TAcquire(t)

TLimiteds == \E t \in Threads : TLimited(t)

TWakes == \E t \in Threads : TWake(t)

TDispatches == \E t \in Threads : TDispatch(t)

NextThreads ==
    TCalls \/ TAcquires \/ TLimiteds \/ TWakes \/ TDispatches \/ TTick

SpecThreads == Init /\ [][NextThreads]_vars

\* every thread that can take a step of make_request takes one in the
\* end, and time passes; nothing obliges a thread to call
Fairness ==
    /\ WF_vars(TTick)
    /\ \A t \in Threads :
          /\ WF_vars(TAcquire(t) \/ TLimited(t))
          /\ WF_vars(TWake(t))
          /\ WF_vars(TDispatch(t))

SpecThreadsFair == Init /\ [][NextThreads]_vars /\ Fairness

---------------------------------------------------------------------------
(* SpecModels: parser, unpack and the case transforms of models.py,       *)
(* applied to the payloads of every record type and to every field name   *)

\* what models.py leaves alone
restVars == <<variant, elapsed, num_calls, sent, sincePause, waited, pc,
              kind, method, raw_res, throttle_time, i, reqs, net, wire,
              lastResp, decodes, raised, naps, log, result, ret, authVars,
              threadVars>>

\* the caller has a payload for a record type
Load(cls, payload) ==
    /\ ppc = "idle"
    /\ target' = Named(cls)
    /\ input' = payload
    /\ instance' = Nothing
    /\ output' = Nothing
    /\ ppc' = "loaded"
    /\ UNCHANGED <<names, registry, restVars>>

\* models.parser(input, target)
Parse ==
    /\ ppc = "loaded"
    /\ instance' = parser(input, target)
    /\ registry' = after_parser(registry, target)
    /\ ppc' = "parsed"
    /\ UNCHANGED <<target, input, output, names, restVars>>

\* models.unpack(instance)
Unpack ==
    /\ ppc = "parsed"
    /\ instance.t # "raise"
    /\ output' = unpack(instance)
    /\ registry' = after_unpack(registry)
    /\ ppc' = "unpacked"
    /\ UNCHANGED <<target, input, instance, names, restVars>>

\* to_lower_camel_case(f), to_snake of that, to_lower_camel_case of that
Convert(f) ==
    /\ ppc = "idle"
    /\ ppc' = "converted"
    /\ names' = [wire |-> to_lower_camel_case(f),
                 field |-> f,
                 snake |-> to_snake(to_lower_camel_case(f)),
                 back |-> to_lower_camel_case(to_snake(to_lower_camel_case(f)))]
    /\ UNCHANGED <<target, input, instance, output, registry, restVars>>

\* the arguments of parser(data=array, model=list[cls])
LoadList(cls, array) ==
    /\ ppc = "idle"
    /\ target' = ListOf(cls)
    /\ input' = array
    /\ instance' = Nothing
    /\ output' = Nothing
    /\ ppc' = "loaded"
    /\ UNCHANGED <<names, registry, restVars>>

\* Fleet.siphon_resources after generic_api_call returned the decoded body
Siphon(res) ==
    /\ ppc = "idle"
    /\ input' = res
    /\ output' = siphon_resources(res)
    /\ ppc' = "siphoned"
    /\ UNCHANGED <<target, instance, names, registry, restVars>>

Siphons == \E n \in 0..MaxLen, both \in BOOLEAN : Siphon(SiphonBody(n, both))

Loads == \E cls \in class_dict : \E payload \in Payloads(cls) : Load(cls, payload)

LoadLists == \E cls \in class_dict : \E array \in Arrays(cls) : LoadList(cls, array)

Converts == \E f \in FieldNames : Convert(f)

NextModels == Loads \/ LoadLists \/ Parse \/ Unpack \/ Converts \/ Siphons

SpecModels == Init /\ [][NextModels]_vars


---------------------------------------------------------------------------
(* What the claims speak of *)

\* generic_api_call has ended (by return or by raise)
CallEnded == pc \in {"returned", "idle"} /\ result # NoValue

\* the answer is an API error answer: its body decodes to an error envelope
\* {code, message}, and it is not the 204 answer that V2 takes before it
\* looks at the body
ErrorAnswer(r) ==
    /\ r.kind = "error" /\ r.hasCode /\ r.hasMessage
    /\ (variant = "V2" => r.status # 204)

RetryableAnswer(r) == ErrorAnswer(r) /\ r.code \in {42901, 500, 409}

FatalAnswer(r) == ErrorAnswer(r) /\ r.code \notin {42901, 500, 409}

\* the answer is a body without an error envelope
DataAnswer(r) == r.kind = "data" /\ (variant = "V2" => r.status # 204)

FiveVerbs == {"GET", "POST", "PUT", "DELETE", "PATCH"}

\* the encoding the specification gives each verb
SpecCarrier(m) ==
    IF m = "GET" THEN "params"
    ELSE IF m \in {"POST", "PATCH"} THEN "json"
    ELSE "data"

\* C1: while every answer is a retryable error answer (42901, 500, 409)
\* the call goes on, it ends only by raising TooManyTriesException after
\* exactly 10 network calls, and there is never an 11th network call.
C1_RetryBound ==
    /\ net <= 10
    /\ (CallEnded /\ RetryableAnswer(lastResp))
          => /\ result = Value("raise", "TooManyTriesException")
             /\ net = 10
    /\ (result = Value("raise", "TooManyTriesException")) => net = 10

C1_Witness ==
    /\ CallEnded
    /\ RetryableAnswer(lastResp)
    /\ lastResp.code = 409
    /\ net = 10
    /\ result = Value("raise", "TooManyTriesException")

C3_FatalNotRetried ==
    (CallEnded /\ FatalAnswer(lastResp))
       => /\ result = Value("False", "")
          /\ raised = ""
          /\ net = i + 1
          /\ Len(naps) = i

C3_Witness ==
    /\ CallEnded
    /\ FatalAnswer(lastResp)
    /\ net = 1
    /\ naps = <<>>
    /\ result = Value("False", "")

\* C4: after k < 10 retryable error answers, an answer without an error
\* envelope makes the call return the decoded body after exactly k + 1
\* network calls and exactly k sleeps, each of throttle_time.
C4_RetryThenSuccess ==
    (CallEnded /\ DataAnswer(lastResp) /\ ~raw_res)
       => /\ result = Value("json", "data")
          /\ i < 10
          /\ net = i + 1
          /\ Len(naps) = i
          /\ \A k \in DOMAIN naps : naps[k] = throttle_time

C4_Witness ==
    /\ CallEnded
    /\ DataAnswer(lastResp)
    /\ ~raw_res
    /\ i = 1
    /\ net = 2
    /\ naps = <<throttle_time>>
    /\ result = Value("json", "data")

\* C5: in both client modules an answer with status 204 makes the call
\* return None without decoding the body, whatever the body holds.
C5_NoContent ==
    (CallEnded /\ lastResp.kind # "none" /\ lastResp.kind # "raise"
               /\ lastResp.status = 204)
       => (result = Value("None", "") /\ decodes = 0)

\* C6: when generic_api_call returns False, every V2 endpoint method
\* returns False and raises nothing.
C6_FalseSentinel ==
    (pc = "idle" /\ variant = "V2" /\ kind \in {"single", "aggregate"}
                 /\ result = Value("False", ""))
       => ret = Value("False", "")

\* C7: an exception raised in an attempt by the transport, by the decoding
\* or by a missing key ends the call at that attempt: no retry, no sleep,
\* nothing raised, and the exception object is the value returned.
C7_ExceptionReturned ==
    (pc # "send" /\ raised \notin {"", "ThrottleException", "ServerException"})
       => /\ CallEnded
          /\ result = Value("exception", raised)
          /\ reqs = i + 1
          /\ Len(naps) = i

C7_Witness ==
    /\ CallEnded
    /\ raised = "JSONDecodeError"
    /\ lastResp.kind = "undecodable"
    /\ result = Value("exception", "JSONDecodeError")

\* C8: ThrottleException and ServerException never leave generic_api_call,
\* neither raised nor returned; the only exception it raises is
\* TooManyTriesException.
C8_RetryablesStayInside ==
    /\ result.kind = "raise" => result.what = "TooManyTriesException"
    /\ result.kind = "exception"
          => result.what \notin {"ThrottleException", "ServerException"}
    /\ (kind = "direct" /\ ret # NoValue) => ret = result

C8_Witness ==
    /\ CallEnded
    /\ raised = "ThrottleException"
    /\ result = Value("raise", "TooManyTriesException")

C10_InvalidVerb ==
    (method \notin FiveVerbs)
       => /\ net = 0
          /\ (reqs > 0) =>
                \E k \in DOMAIN log :
                    log[k].text = "Invalid method provided" /\ log[k].verb = method

C10_Witness ==
    /\ CallEnded
    /\ method = "HEAD"
    /\ reqs = 1
    /\ net = 0
    /\ result = Value("exception", "AttributeError")

\* C11: every network call of an endpoint method other than registration
\* carries the Authorization header 'Bearer ' + the token of the facade
\* whose method was called, and the network call of a registration method
\* (Agent.register_new_agent of both modules, Api.register_new_agent)
\* carries no Authorization header.
C11_BearerExceptRegistration ==
    /\ (posted.by # "" /\ op = "endpoint")
          => posted.headers = Bearer(tokens[facade])
    /\ (posted.by # "" /\ op \in {"register_new_agent", "Api.register_new_agent"})
          => ~posted.headers.authorization

C12_RawResponse ==
    (pc = "idle" /\ raw_res /\ result = Value("raw", "data"))
       => ret = Value("raw", "data")

\* C13: whenever generic_api_call sleeps for a retry, returns False,
\* returns an exception object or raises TooManyTriesException, the
\* attempt has emitted at least one log record before.
C13_NoSilentFailure ==
    /\ (CallEnded /\ (result.kind \in {"False", "exception"}
                      \/ result = Value("raise", "TooManyTriesException")))
          => log # <<>>
    /\ (pc = "acquire" /\ i > 0) => log # <<>>

Waiting(t) == tpc[t] \in {"acquire", "asleep"}

\* C15 as stated: under fair scheduling every call of make_request, also
\* with other threads calling, reaches its network call in the end, and
\* RateLimitException never reaches the caller.
C15_EveryCallDispatches ==
    /\ [](\A t \in Threads : tpc[t] # "raised")
    /\ \A t \in Threads : (tpc[t] = "acquire") ~> (tpc[t] = "send")

\* C15 as amended: RateLimitException never reaches the caller of
\* make_request (sleep_and_retry catches it, sleeps and tries again), and
\* under fair scheduling, whenever some call waits for the limiter, some
\* call reaches its network call in the end; a call with no competitor
\* for the limiter always does.  A given call among concurrent callers
\* can be overtaken in every window.
C15_SomeCallDispatches ==
    /\ [](\A t \in Threads : tpc[t] # "raised")
    /\ (\E t \in Threads : Waiting(t)) ~> (\E t \in Threads : tpc[t] = "send")
    /\ \A t \in Threads :
          (Waiting(t) /\ \A u \in Threads \ {t} : tpc[u] = "idle")
             ~> (tpc[t] = "send" \/ \E u \in Threads \ {t} : tpc[u] # "idle")

\* a call that the limiter held back has slept and was then let through
C15_Witness ==
    \E t \in Threads :
        /\ tpc[t] = "send"
        /\ slept[t]
        /\ napLeft[t] = 0

\* the lowerCamelCase wire name of a declared field
wire_name(f) == to_lower_camel_case(f.name)

\* value has the shape type asks for; a payload of a record type holds
\* every declared field (every), or every field without a default, under
\* its wire name, and nothing of another shape under a wire name
RECURSIVE Shaped(_, _, _)
Shaped(value, type, every) ==
    IF type \in DOMAIN list_dict
    THEN /\ value.t = "list"
         /\ \A k \in DOMAIN value.items :
               Shaped(value.items[k], Named(type.of), every)
    ELSE IF is_class(type)
    THEN /\ value.t = "dict"
         /\ \A m \in DOMAIN fields[type.of] :
               LET f == fields[type.of][m]
                   at == {k \in DOMAIN value.items : value.items[k].key = wire_name(f)}
               IN /\ (every \/ ~f.hasDefault) => at # {}
                  /\ \A k \in at : Shaped(value.items[k].value, f.type, every)
    ELSE IF type.list
    THEN /\ value.t = "list"
         /\ \A k \in DOMAIN value.items : value.items[k].t = "prim"
    ELSE value.t = "prim"

\* inst is the instance the payload value stands for: every declared field
\* whose wire name is a key of the payload holds the payload's value,
\* marshalled in its turn where the field's type is a record type or a
\* list of one
RECURSIVE Agrees(_, _, _)
Agrees(inst, value, type) ==
    IF type \in DOMAIN list_dict
    THEN /\ inst.t = "list"
         /\ Len(inst.items) = Len(value.items)
         /\ \A k \in DOMAIN value.items :
               Agrees(inst.items[k], value.items[k], Named(type.of))
    ELSE IF is_class(type)
    THEN /\ inst.t = "obj"
         /\ inst.cls = type.of
         /\ Len(inst.items) = Len(fields[type.of])
         /\ \A m \in DOMAIN fields[type.of] :
               LET f == fields[type.of][m]
               IN /\ inst.items[m].key = f.name
                  /\ \A k \in DOMAIN value.items :
                        value.items[k].key = wire_name(f)
                           => Agrees(inst.items[m].value, value.items[k].value, f.type)
    ELSE inst = value

\* back gives every key of the payload value that is the wire name of a
\* declared field the payload's value, at every level, and holds no key of
\* the payload that the type does not declare
RECURSIVE RoundTrip(_, _, _)
RoundTrip(back, value, type) ==
    IF type \in DOMAIN list_dict
    THEN /\ back.t = "list"
         /\ Len(back.items) = Len(value.items)
         /\ \A k \in DOMAIN value.items :
               RoundTrip(back.items[k], value.items[k], Named(type.of))
    ELSE IF is_class(type)
    THEN /\ back.t = "dict"
         /\ \A k \in DOMAIN value.items :
               LET key == value.items[k].key
                   decl == {m \in DOMAIN fields[type.of] :
                               wire_name(fields[type.of][m]) = key}
                   at == {j \in DOMAIN back.items : back.items[j].key = key}
               IN IF decl = {} THEN at = {}
                  ELSE /\ at # {}
                       /\ \A j \in at : \A m \in decl :
                             RoundTrip(back.items[j].value, value.items[k].value,
                                       fields[type.of][m].type)
    ELSE back = value

\* parser has returned or raised
Parsed == ppc \in {"parsed", "unpacked"}

\* C17: for a record type T and a payload that holds the fields of T under
\* their wire names, parser returns an instance of T in which every
\* declared field whose wire name is a key of the payload holds the
\* payload's value: unchanged for a scalar or a list of scalars, parsed
\* for a record type, parsed element by element for a list of a record
\* type.
C17_ParsedFields ==
    (Parsed /\ Shaped(input, target, FALSE)) => Agrees(instance, input, target)

\* C18: for every record type of models.py, parser applied to a payload
\* that holds every declared field under its wire name, with values of the
\* expected shape, returns an instance and does not raise.
C18_ParserTotal ==
    (Parsed /\ Shaped(input, target, TRUE))
       => (instance.t = "obj" /\ instance.cls = target.of)

\* C19: for every record type T and every payload parser accepts for T,
\* unpack of the parsed instance succeeds and gives every key that is in
\* the payload and is a wire name of T the payload's value, at every
\* level; keys T does not declare are absent.
C19_RoundTrip ==
    ppc = "unpacked" => RoundTrip(output, input, target)

\* C20: for every field name f declared in models.py,
\* to_snake(to_lower_camel_case(f)) = f, and for its wire name
\* w = to_lower_camel_case(f), to_lower_camel_case(to_snake(w)) = w.
C20_CaseInverse ==
    ppc = "converted" => (names.snake = names.field /\ names.back = names.wire)

\* C21: parser(payload, list[T]), for a registered record type T and an
\* array of N payloads of T, returns a list of exactly N instances of T in
\* the array's order, instance i being parser(payload[i], T).
C21_SequenceOrder ==
    (Parsed /\ target.list /\ Shaped(input, target, TRUE))
       => /\ instance.t = "list"
          /\ Len(instance.items) = Len(input.items)
          /\ \A k \in DOMAIN input.items :
                /\ instance.items[k].t = "obj"
                /\ instance.items[k].cls = target.of
                /\ instance.items[k] = parser(input.items[k], Named(target.of))

\* the payload key corresponds to the declared field f
corresponds(key, f) == to_snake(key) = f.name

\* the declared fields of the target type no key of the payload
\* corresponds to
Absent ==
    {m \in DOMAIN fields[target.of] :
        \A k \in DOMAIN input.items :
            ~corresponds(input.items[k].key, fields[target.of][m])}

\* parser was given a dict and a registered record type
ParsedRecord ==
    Parsed /\ ~target.list /\ target.of \in class_dict /\ input.t = "dict"

\* C22: a field declared with a default that has no corresponding key in
\* the payload is left at its default, None, and parsing succeeds, when
\* every field without a default has its key.
C22_DefaultKept ==
    (/\ ParsedRecord
     /\ Shaped(input, target, FALSE)
     /\ \E m \in Absent : fields[target.of][m].hasDefault)
       => /\ instance.t = "obj"
          /\ instance.cls = target.of
          /\ \A m \in Absent :
                /\ instance.items[m].key = fields[target.of][m].name
                /\ instance.items[m].value.t = "None"

\* a Ship payload without a cooldown key has been parsed to a Ship whose
\* cooldown is None and whose crew is a ShipCrew
C22_Witness ==
    /\ ParsedRecord
    /\ target.of = "Ship"
    /\ Absent = {9}
    /\ fields["Ship"][9].name = <<"c", "o", "o", "l", "d", "o", "w", "n">>
    /\ instance.t = "obj"
    /\ instance.items[9].value.t = "None"
    /\ instance.items[8].value.t = "obj"
    /\ instance.items[8].value.cls = "ShipCrew"

\* the declared fields of the target type without a default whose wire
\* name is no key of the payload
MissingRequired ==
    {m \in DOMAIN fields[target.of] :
        /\ ~fields[target.of][m].hasDefault
        /\ \A k \in DOMAIN input.items :
              input.items[k].key # wire_name(fields[target.of][m])}

\* C23: parser fails with a missing-field error (TypeError of the
\* constructor), and returns no instance, exactly when some declared field
\* of the target type without a default has no corresponding key in the
\* payload; an instance it returns holds every field without a default.
C23_MissingField ==
    ParsedRecord
       => /\ (instance = Raise("TypeError")) <=> (MissingRequired # {})
          /\ instance.t \in {"obj", "raise"}
          /\ instance.t = "obj" =>
                \A m \in DOMAIN fields[target.of] :
                    ~fields[target.of][m].hasDefault
                       => instance.items[m].value.t \notin {"nothing", "None"}

\* the payload key corresponds to a declared field of the target type
Declared(key) ==
    \E m \in DOMAIN fields[target.of] : corresponds(key, fields[target.of][m])

\* the payload without the keys that correspond to no declared field
DeclaredOnly ==
    LET known(item) == Declared(item.key)
    IN Dict(SelectSeq(input.items, known))

\* the payload holds a key that corresponds to no declared field
HasUnknown == \E k \in DOMAIN input.items : ~Declared(input.items[k].key)

\* C24: payload keys that correspond to no declared field of the target
\* type are ignored: parser gives, for a payload with such keys, what it
\* gives for the payload without them (the same instance, or the same
\* exception).
C24_UnknownIgnored ==
    (ParsedRecord /\ HasUnknown) => instance = parser(DeclaredOnly, target)

\* a payload of an Agent with an undeclared key has been parsed to an Agent
C24_Witness ==
    /\ ParsedRecord
    /\ HasUnknown
    /\ Len(DeclaredOnly.items) = Len(input.items) - 1
    /\ target.of = "Agent"
    /\ instance.t = "obj"
    /\ instance.cls = "Agent"

\* the answer decodes to a body with an error envelope whose code is
\* retryable; the envelope may lack its message
RetryableCode(r) ==
    /\ r.kind = "error" /\ r.hasCode /\ r.code \in {42901, 500, 409}
    /\ (variant = "V2" => r.status # 204)

\* C25: the classification of a retryable error depends on the code alone:
\* an answer whose error envelope holds the code 42901, 500 or 409 never
\* ends the call by a return, also when the envelope has no message; the
\* call sleeps throttle_time after it and ends, if every answer is such,
\* by TooManyTriesException after 10 network calls.
C25_CodeAlone ==
    (CallEnded /\ RetryableCode(lastResp))
       => /\ result = Value("raise", "TooManyTriesException")
          /\ net = MaxTries
          /\ Len(naps) = MaxTries
          /\ \A k \in DOMAIN naps : naps[k] = throttle_time

\* C26: when generic_api_call returns an exception object as its value,
\* every SpacePyTradersV2 endpoint method hands a failure value (False or
\* the exception object) back to its caller and raises nothing.
C26_FailureValueNotRaise ==
    (pc = "idle" /\ variant = "V2" /\ kind \in {"single", "aggregate"}
                 /\ result.kind = "exception")
       => /\ ret.kind # "raise"
          /\ ret \in {Value("False", ""), result}

\* Api.register_new_agent has ended on the answer lastResp
ApiRegistrationEnded ==
    pc = "idle" /\ op = "Api.register_new_agent" /\ lastResp.kind # "none"

\* C27: in the SpacePyTraders Api aggregator, after register_new_agent
\* received an ok response with a token, Api.token and the token of every
\* facade the Api holds (faction included) are the token of the response;
\* after a response that is not ok every token is unchanged.
C27_TokenOnEveryFacade ==
    /\ []((ApiRegistrationEnded /\ lastResp.kind = "data" /\ ok(lastResp))
             => \A h \in Facades(variant) \cup {"api"} : tokens[h] = "T2")
    /\ [][(/\ op = "Api.register_new_agent"
           /\ pc = "send"
           /\ pc' = "idle"
           /\ lastResp'.kind # "raise"
           /\ ~ok(lastResp')) => tokens' = tokens]_vars

\* C28: Fleet.siphon_resources (SpacePyTradersV2), on a success response
\* whose data holds cooldown, siphon {shipSymbol, yield}, cargo and events
\* and no extraction key, returns a dict whose siphon entry holds the ship
\* symbol and the ExtractionYield parsed from data.siphon.
C28_SiphonYield ==
    (/\ ppc = "siphoned"
     /\ getitem(getitem(input, k_data), k_extraction) = Raise("KeyError"))
       => LET siphon == getitem(getitem(input, k_data), k_siphon)
          IN /\ output.t = "dict"
             /\ getitem(getitem(output, k_siphon), k_ship_symbol)
                   = getitem(siphon, k_shipSymbol)
             /\ getitem(getitem(output, k_siphon), k_yield)
                   = parser(getitem(siphon, k_yield), Named("ExtractionYield"))

\* the five ways generic_api_call ends
Outcomes ==
    {Value("None", ""), Value("False", ""), Value("json", "data"),
     Value("raw", "data"), Value("raw", "error"),
     Value("raise", "TooManyTriesException")}
    \cup {Value("exception", e) :
             e \in {"ConnectionError", "AttributeError", "JSONDecodeError", "KeyError"}}

\* generic_api_call is in its loop
InLoop == pc \in {"acquire", "send"}

C30_RegistryReadOnly ==
    /\ DOMAIN registry.class_dict = class_dict
    /\ \A name \in class_dict : registry.class_dict[name] = Named(name)
    /\ DOMAIN registry.list_dict = {ListOf(name) : name \in class_dict}
    /\ \A name \in class_dict : registry.list_dict[ListOf(name)] = name
    /\ Cardinality(DOMAIN registry.class_dict) = 43

\* parser has returned an instance and unpack has raised on it
C30_Witness ==
    /\ ppc = "unpacked"
    /\ instance.t = "obj"
    /\ output.t = "raise"
    /\ registry = Registry

===========================================================================
